---- MODULE Spec2Model ----
(***************************************************************************)
(* gcloud/logging/logger.py: Logger (single-entry writes, delete, list)    *)
(* and Batch (accumulate entries, flush them with one write request).      *)
(*                                                                         *)
(* The module is synchronous: every method is one atomic step of the       *)
(* caller.  The collaborators (client.connection.api_request,              *)
(* client.list_entries, MessageToJson/json.loads) are recorded by the      *)
(* calls they receive; whether a collaborator call returns or raises is    *)
(* an input of the step.                                                   *)
(*                                                                         *)
(* Python values: None is the empty tuple and a present value x is <<x>>   *)
(* wherever the code tests "is None"; a dict of labels is a set of         *)
(* <<key, value>> pairs; a request body / wire entry (a dict with string   *)
(* keys) is a function from its keys; str is a TLA+ string and "%s"        *)
(* formatting is string concatenation.                                     *)
(***************************************************************************)
EXTENDS Integers, Sequences, FiniteSets, TLC

VARIABLES
    loggerName,     \* Logger.name
    loggerLabels,   \* Logger.labels (None or a dict)
    requests,       \* calls received by client.connection.api_request, in order
    listCalls,      \* calls received by client.list_entries, in order
    batchLogger,    \* Batch.logger: "none" (no Batch yet), "Logger" or "stub"
    batchClient,    \* Batch.client
    entries,        \* Batch.entries
    scope,          \* "in" between Batch.__enter__ and Batch.__exit__
    appended,       \* history: every entry appended to the current Batch
    flushed,        \* history: wire entries of the current Batch's commits that returned
    last            \* the most recent call: its arguments, the state before it, its outcome

vars == <<loggerName, loggerLabels, requests, listCalls, batchLogger,
          batchClient, entries, scope, appended, flushed, last>>

loggerVars == <<loggerName, loggerLabels>>
batchVars == <<batchLogger, batchClient, entries, scope, appended, flushed>>

-----------------------------------------------------------------------------
(* Bounds of the model *)

MaxCalls == 2       \* collaborator calls recorded from the Logger's own methods
MaxCommits == 2     \* api_request calls recorded before Batch.commit is no longer taken
MaxAppends == 2     \* entries appended to one Batch

-----------------------------------------------------------------------------
(* Python values *)

None == << >>
Some(x) == << x >>

(* The inputs the caller draws from. *)
Names == {"app", "n"}
BoundClient == "bound"                  \* Logger._client
OtherClient == "other"                  \* a client passed as the override
ClientArgs == {None, Some(OtherClient)}
DefaultLabels == {None, Some({<<"a", "1">>})}
LabelArgs == {None, Some({}), Some({<<"k", "v">>})}
Texts == {"a", "c"}
Structs == {[b |-> 1]}
UserMsg == << <<"user_id", "7">>, <<"name", "A">> >>   \* a protobuf message: its fields in order
BadMsg == << <<"blob", "NaV">> >>                      \* a message the codec cannot render
Messages == {UserMsg, BadMsg}
Filters == {None, Some("severity>=ERROR")}
ListArgs == {[projects |-> None, order_by |-> None, page_size |-> None, page_token |-> None],
             [projects |-> Some(<<"p", "q">>), order_by |-> Some("timestamp desc"),
              page_size |-> Some(5), page_token |-> Some("tok1")]}
ListResults == {<< <<"e1", "e2">>, Some("tok2") >>, << <<"e3">>, None >>}
Excs == {None, Some("RuntimeError")}    \* exc_type handed to Batch.__exit__
StubPath == "/projects/p/logs/stub"     \* the path a stand-in logger object exposes

(* client.project *)
ClientProject(client) == IF client = BoundClient THEN "p" ELSE "q"

-----------------------------------------------------------------------------
(* The external codec: MessageToJson renders a message to JSON text (a     *)
(* sequence of tokens here), json.loads parses the text to a mapping.      *)

CanRender(message) == \A i \in 1..Len(message) : message[i][2] # "NaV"

(* protobuf JSON names are lowerCamelCase *)
JsonName(field) == IF field = "user_id" THEN "userId" ELSE field

RECURSIVE JsonFields(_, _)
JsonFields(message, i) ==
    IF i > Len(message) THEN << >>
    ELSE (IF i > 1 THEN <<",">> ELSE << >>)
         \o << JsonName(message[i][1]), ":", message[i][2] >>
         \o JsonFields(message, i + 1)

MessageToJson(message) == <<"{">> \o JsonFields(message, 1) \o <<"}">>

RECURSIVE JsonMembers(_, _)
JsonMembers(text, i) ==
    IF text[i] = "}" THEN << >>
    ELSE IF text[i] = "," THEN JsonMembers(text, i + 1)
    ELSE (text[i] :> text[i + 2]) @@ JsonMembers(text, i + 3)

JsonLoads(text) == JsonMembers(text, 2)

-----------------------------------------------------------------------------
(* Logger *)

LoggerProject == ClientProject(BoundClient)

FullName == "projects/" \o LoggerProject \o "/logs/" \o loggerName

RequireClient(client) == IF client = None THEN BoundClient ELSE client[1]

GetLabelsByTruthiness(labels) ==
    IF labels # None /\ labels[1] # {} THEN labels ELSE loggerLabels

GetLabels(labels) == IF labels # None THEN labels ELSE loggerLabels

(* data['entries'][0]['labels'] = labels, when labels is not None *)
SetLabels(data, labels) ==
    IF labels # None
    THEN [data EXCEPT !.entries[1] = ("labels" :> labels[1]) @@ @]
    ELSE data

LogTextData(text) ==
    [entries |-> << [logName |-> FullName,
                     textPayload |-> text,
                     resource |-> [type |-> "global"]] >>]

LogStructData(info) ==
    [entries |-> << [logName |-> FullName,
                     jsonPayload |-> info,
                     resource |-> [type |-> "global"]] >>]

LogProtoData(as_json) ==
    [entries |-> << [logName |-> FullName,
                     protoPayload |-> as_json,
                     resource |-> [type |-> "global"]] >>]

(* client.connection.api_request(method='POST', path='/entries:write', data=data) *)
PostWrite(client, data) ==
    [client |-> client, method |-> "POST", path |-> "/entries:write", data |-> data]

DispatchWithRetry(reqs, client, data) ==
    reqs \o << PostWrite(client, data), PostWrite(client, data) >>

Dispatch(reqs, client, data) == Append(reqs, PostWrite(client, data))

Outcome(ok) == IF ok THEN "returned" ELSE "TransportError"

LoggerLogText(text, client, labels, ok) ==
    /\ Len(requests) + Len(listCalls) < MaxCalls
    /\ requests' = Dispatch(requests, RequireClient(client),
                            SetLabels(LogTextData(text), GetLabels(labels)))
    /\ last' = [op |-> "Logger.log_text", kind |-> "text", value |-> text,
                client |-> client, labels |-> labels, defaults |-> loggerLabels,
                before |-> Len(requests), outcome |-> Outcome(ok)]
    /\ UNCHANGED <<loggerVars, listCalls, batchVars>>

LoggerLogStruct(info, client, labels, ok) ==
    /\ Len(requests) + Len(listCalls) < MaxCalls
    /\ requests' = Dispatch(requests, RequireClient(client),
                            SetLabels(LogStructData(info), GetLabels(labels)))
    /\ last' = [op |-> "Logger.log_struct", kind |-> "struct", value |-> info,
                client |-> client, labels |-> labels, defaults |-> loggerLabels,
                before |-> Len(requests), outcome |-> Outcome(ok)]
    /\ UNCHANGED <<loggerVars, listCalls, batchVars>>

LoggerLogProto(message, client, labels, ok) ==
    /\ Len(requests) + Len(listCalls) < MaxCalls
    /\ IF CanRender(message)
       THEN /\ requests' = Dispatch(requests, RequireClient(client),
                                    SetLabels(LogProtoData(JsonLoads(MessageToJson(message))),
                                              GetLabels(labels)))
            /\ last' = [op |-> "Logger.log_proto", kind |-> "proto", value |-> message,
                        client |-> client, labels |-> labels, defaults |-> loggerLabels,
                        before |-> Len(requests), outcome |-> Outcome(ok)]
       ELSE /\ requests' = requests
            /\ last' = [op |-> "Logger.log_proto", kind |-> "proto", value |-> message,
                        client |-> client, labels |-> labels, defaults |-> loggerLabels,
                        before |-> Len(requests), outcome |-> "EncodingError"]
    /\ UNCHANGED <<loggerVars, listCalls, batchVars>>

LoggerDelete(client, ok) ==
    /\ Len(requests) + Len(listCalls) < MaxCalls
    /\ requests' = Append(requests, [client |-> RequireClient(client), method |-> "DELETE",
                                     path |-> "/" \o FullName])
    /\ last' = [op |-> "Logger.delete", client |-> client,
                before |-> Len(requests), outcome |-> Outcome(ok)]
    /\ UNCHANGED <<loggerVars, listCalls, batchVars>>

LogFilter == "logName:" \o loggerName

ListFilterDroppingCaller(filter_) == LogFilter

ListFilter(filter_) ==
    IF filter_ # None THEN filter_[1] \o " AND " \o LogFilter ELSE LogFilter

(* return self.client.list_entries(...): the collaborator's value is the result *)
ListEntriesReturn(result) == result

LoggerListEntries(args, filter_, ok, result) ==
    /\ Len(requests) + Len(listCalls) < MaxCalls
    /\ listCalls' = Append(listCalls,
                           [client |-> BoundClient, projects |-> args.projects,
                            filter_ |-> ListFilter(filter_), order_by |-> args.order_by,
                            page_size |-> args.page_size, page_token |-> args.page_token])
    /\ last' = [op |-> "Logger.list_entries", args |-> args, filter_ |-> filter_,
                before |-> Len(listCalls), outcome |-> Outcome(ok),
                collaborator |-> IF ok THEN Some(result) ELSE None,
                result |-> IF ok THEN Some(ListEntriesReturn(result)) ELSE None]
    /\ UNCHANGED <<loggerVars, requests, batchVars>>

-----------------------------------------------------------------------------
(* Batch *)

(* What an object handed to Batch.__init__ as its logger exposes: a Logger *)
(* has the attributes class Logger defines; a stand-in object exposes      *)
(* `path`.                                                                 *)
LoggerAttributes ==
    {"name", "_client", "labels", "client", "project", "full_name", "_require_client",
     "batch", "_get_labels", "log_text", "log_struct", "log_proto", "delete", "list_entries"}

Attributes(logger) == IF logger = "Logger" THEN LoggerAttributes ELSE {"path"}

(* self.logger.path: None stands for the AttributeError of a missing attribute *)
LoggerPath(logger) ==
    IF "path" \in Attributes(logger) THEN Some(StubPath) ELSE None

(* Logger.batch(client) *)
LoggerBatch(client) ==
    /\ batchLogger = "none"
    /\ batchLogger' = "Logger"
    /\ batchClient' = RequireClient(client)
    /\ entries' = << >>
    /\ appended' = << >>
    /\ flushed' = << >>
    /\ last' = [op |-> "Logger.batch", client |-> client, pre |-> << >>,
                before |-> Len(requests), outcome |-> "returned"]
    /\ UNCHANGED <<loggerVars, requests, listCalls, scope>>

(* Batch(logger, client) with a stand-in logger object *)
BatchInit(client) ==
    /\ batchLogger = "none"
    /\ batchLogger' = "stub"
    /\ batchClient' = client
    /\ entries' = << >>
    /\ appended' = << >>
    /\ flushed' = << >>
    /\ last' = [op |-> "Batch.__init__", client |-> Some(client), pre |-> << >>,
                before |-> Len(requests), outcome |-> "returned"]
    /\ UNCHANGED <<loggerVars, requests, listCalls, scope>>

BatchEnter ==
    /\ batchLogger # "none"
    /\ scope = "out"
    /\ scope' = "in"
    /\ last' = [op |-> "Batch.__enter__", pre |-> entries,
                before |-> Len(requests), outcome |-> "returned"]
    /\ UNCHANGED <<loggerVars, requests, listCalls, batchLogger, batchClient,
                   entries, appended, flushed>>

PrependEntry(es, kind, value) == << <<kind, value>> >> \o es

(* self.entries.append((kind, value)) *)
AppendEntry(es, kind, value) == Append(es, <<kind, value>>)

Accumulate(op, kind, value) ==
    /\ batchLogger # "none"
    /\ Len(appended) < MaxAppends
    /\ entries' = AppendEntry(entries, kind, value)
    /\ appended' = Append(appended, <<kind, value>>)
    /\ last' = [op |-> op, kind |-> kind, value |-> value, pre |-> entries,
                before |-> Len(requests), outcome |-> "returned"]
    /\ UNCHANGED <<loggerVars, requests, listCalls, batchLogger, batchClient,
                   scope, flushed>>

BatchLogText(text) == Accumulate("Batch.log_text", "text", text)

BatchLogStruct(info) == Accumulate("Batch.log_struct", "struct", info)

BatchLogProto(message) == Accumulate("Batch.log_proto", "proto", message)

(* One turn of commit's loop: the wire shape of an accumulated entry, or   *)
(* the error the turn raises.                                              *)
EntryInfo(entry) ==
    IF entry[1] = "text" THEN [err |-> "none", info |-> [textPayload |-> entry[2]]]
    ELSE IF entry[1] = "struct" THEN [err |-> "none", info |-> [structPayload |-> entry[2]]]
    ELSE IF entry[1] = "proto"
         THEN IF CanRender(entry[2])
              THEN [err |-> "none",
                    info |-> [protoPayload |-> JsonLoads(MessageToJson(entry[2]))]]
              ELSE [err |-> "EncodingError", info |-> None]
    ELSE [err |-> "ValueError", info |-> None]

(* commit's loop over self.entries from position i: the first error ends it *)
RECURSIVE RenderEntries(_, _)
RenderEntries(es, i) ==
    IF i > Len(es) THEN [err |-> "none", wire |-> << >>]
    ELSE LET r == EntryInfo(es[i])
         IN  IF r.err # "none" THEN [err |-> r.err, wire |-> << >>]
             ELSE LET rest == RenderEntries(es, i + 1)
                  IN  IF rest.err # "none" THEN rest
                      ELSE [err |-> "none", wire |-> << r.info >> \o rest.wire]

(* Batch.commit up to and including the api_request call: how the call     *)
(* ends and the request it dispatched, if it got that far.                 *)
CommitResult(client, ok) ==
    LET path == LoggerPath(batchLogger)
        rendered == RenderEntries(entries, 1)
    IN  IF path = None THEN [outcome |-> "AttributeError", request |-> None]
        ELSE IF rendered.err # "none" THEN [outcome |-> rendered.err, request |-> None]
        ELSE [outcome |-> Outcome(ok),
              request |-> Some(PostWrite(IF client = None THEN batchClient ELSE client[1],
                                         [logName |-> path[1],
                                          resource |-> [type |-> "global"],
                                          entries |-> rendered.wire]))]

EntriesClearedAlways(es, outcome) == << >>

EntriesNeverCleared(es, outcome) == es

(* del self.entries[:] is reached only when api_request returned *)
EntriesAfterCommit(es, outcome) == IF outcome = "returned" THEN << >> ELSE es

CommitEffects(res) ==
    /\ requests' = IF res.request # None THEN Append(requests, res.request[1]) ELSE requests
    /\ entries' = EntriesAfterCommit(entries, res.outcome)
    /\ flushed' = IF res.outcome = "returned"
                  THEN flushed \o res.request[1].data.entries
                  ELSE flushed

BatchCommit(client, ok) ==
    /\ batchLogger # "none"
    /\ Len(requests) < MaxCommits
    /\ LET res == CommitResult(client, ok)
       IN  /\ CommitEffects(res)
           /\ last' = [op |-> "Batch.commit", client |-> client, pre |-> entries,
                       before |-> Len(requests), outcome |-> res.outcome, commits |-> 1]
    /\ UNCHANGED <<loggerVars, listCalls, batchLogger, batchClient, scope, appended>>

(* __exit__ has no return statement: it returns None, which suppresses nothing *)
ExitSuppresses == FALSE

BatchExit(exc, ok) ==
    /\ batchLogger # "none"
    /\ scope = "in"
    /\ Len(requests) < MaxCommits
    /\ scope' = "out"
    /\ IF exc = None
       THEN LET res == CommitResult(None, ok)
            IN  /\ CommitEffects(res)
                /\ last' = [op |-> "Batch.__exit__", exc |-> exc, pre |-> entries,
                            before |-> Len(requests), outcome |-> res.outcome,
                            commits |-> 1,
                            raised |-> IF res.outcome = "returned" THEN None
                                       ELSE Some(res.outcome)]
       ELSE /\ UNCHANGED <<requests, entries, flushed>>
            /\ last' = [op |-> "Batch.__exit__", exc |-> exc, pre |-> entries,
                        before |-> Len(requests), outcome |-> "returned",
                        commits |-> 0,
                        raised |-> IF ExitSuppresses THEN None ELSE exc]
    /\ UNCHANGED <<loggerVars, listCalls, batchLogger, batchClient, appended>>

-----------------------------------------------------------------------------

Init ==
    /\ loggerName \in Names
    /\ loggerLabels \in DefaultLabels
    /\ requests = << >>
    /\ listCalls = << >>
    /\ batchLogger = "none"
    /\ batchClient = BoundClient
    /\ entries = << >>
    /\ scope = "out"
    /\ appended = << >>
    /\ flushed = << >>
    /\ last = [op |-> "init"]

NextLogger ==
    \/ \E text \in Texts, client \in ClientArgs, labels \in LabelArgs, ok \in BOOLEAN :
          LoggerLogText(text, client, labels, ok)
    \/ \E info \in Structs, client \in ClientArgs, labels \in LabelArgs, ok \in BOOLEAN :
          LoggerLogStruct(info, client, labels, ok)
    \/ \E message \in Messages, client \in ClientArgs, labels \in LabelArgs, ok \in BOOLEAN :
          LoggerLogProto(message, client, labels, ok)
    \/ \E client \in ClientArgs, ok \in BOOLEAN : LoggerDelete(client, ok)
    \/ \E args \in ListArgs, filter_ \in Filters, ok \in BOOLEAN, result \in ListResults :
          LoggerListEntries(args, filter_, ok, result)

SpecLogger == Init /\ [][NextLogger]_vars

NextBatch ==
    \/ \E client \in ClientArgs : LoggerBatch(client)
    \/ \E client \in {BoundClient, OtherClient} : BatchInit(client)
    \/ BatchEnter
    \/ \E text \in Texts : BatchLogText(text)
    \/ \E info \in Structs : BatchLogStruct(info)
    \/ \E message \in Messages : BatchLogProto(message)
    \/ \E client \in ClientArgs, ok \in BOOLEAN : BatchCommit(client, ok)
    \/ \E exc \in Excs, ok \in BOOLEAN : BatchExit(exc, ok)

SpecBatch == Init /\ [][NextBatch]_vars

(* Logger's methods and Batch's methods share nothing but the record of    *)
(* api_request calls; SpecLogger and SpecBatch are Spec restricted to the  *)
(* methods of one class each.                                              *)
Next == NextLogger \/ NextBatch

Spec == Init /\ [][Next]_vars

-----------------------------------------------------------------------------
(* Vocabulary of the properties *)

LastRequest == requests[Len(requests)]

LastListCall == listCalls[Len(listCalls)]

IsLoggerWrite == last.op \in {"Logger.log_text", "Logger.log_struct", "Logger.log_proto"}

IsAccumulation == last.op \in {"Batch.log_text", "Batch.log_struct", "Batch.log_proto"}

IsCommit == last.op = "Batch.commit" \/ (last.op = "Batch.__exit__" /\ last.commits = 1)

IsBatchCall ==
    last.op \in {"Batch.__enter__", "Batch.__exit__", "Batch.commit"} \/ IsAccumulation

DispatchedOne == Len(requests) = last.before + 1

Global == [type |-> "global"]

(* the client a call with override argument c goes through *)
Effective(c, bound) == IF c = None THEN bound ELSE c[1]

(* the parsed JSON rendering of a message *)
ParsedJson(message) ==
    [k \in {JsonName(message[i][1]) : i \in DOMAIN message} |->
        message[CHOOSE i \in DOMAIN message : JsonName(message[i][1]) = k][2]]

PayloadValue(entry) == IF entry[1] = "proto" THEN ParsedJson(entry[2]) ELSE entry[2]

(* a wire entry of a batch request carries an accumulated entry's value *)
Carries(wire, entry) == \E k \in DOMAIN wire : wire[k] = PayloadValue(entry)

AllRenderable(es) == \A i \in DOMAIN es : es[i][1] = "proto" => CanRender(es[i][2])

(* the payload key the specification names for each kind *)
ClaimedKey(kind) ==
    IF kind = "text" THEN "textPayload"
    ELSE IF kind = "struct" THEN "structuredPayload"
    ELSE "protoPayload"

PayloadKeysOf(wire) == DOMAIN wire \ {"logName", "resource", "labels"}

-----------------------------------------------------------------------------
(* C1: a commit() on a Batch created by Logger.batch() that fails neither  *)
(* in the collaborator nor in rendering dispatches exactly one POST        *)
(* /entries:write whose entries array has one element per accumulated      *)
(* entry, in insertion order, the i-th carrying the i-th entry's value.    *)
C1_CommitDispatchesAllInOrder ==
    (IsCommit /\ batchLogger = "Logger"
        /\ last.outcome \notin {"TransportError", "EncodingError"})
    => /\ DispatchedOne
       /\ LastRequest.method = "POST"
       /\ LastRequest.path = "/entries:write"
       /\ Len(LastRequest.data.entries) = Len(last.pre)
       /\ \A i \in DOMAIN last.pre : Carries(LastRequest.data.entries[i], last.pre[i])

(* C2: leaving a Batch scope with no error raised runs exactly one         *)
(* commit(), which dispatches one write request through the Batch's bound  *)
(* client; leaving it by a raised error runs no commit, dispatches         *)
(* nothing, leaves the entries unchanged and lets the error propagate.     *)
C2_ScopeContract ==
    (last.op = "Batch.__exit__" /\ AllRenderable(last.pre))
    => IF last.exc = None
       THEN /\ last.commits = 1
            /\ DispatchedOne
            /\ LastRequest.client = batchClient
       ELSE /\ last.commits = 0
            /\ Len(requests) = last.before
            /\ entries = last.pre
            /\ last.raised = last.exc

(* C3: a commit() that fails, for whatever reason, leaves the accumulated  *)
(* entry sequence exactly as it was before the call.                       *)
C3_FailedCommitKeepsEntries ==
    (IsCommit /\ last.outcome # "returned")
    => /\ entries = last.pre
       /\ Len(flushed) + Len(entries) = Len(appended)

C3_Witness ==
    /\ IsCommit
    /\ last.outcome = "TransportError"
    /\ DispatchedOne
    /\ Len(entries) = 2

(* C4: after a commit() that returned the entry sequence is empty; the     *)
(* entries sent by the commits that returned are, one for one and in       *)
(* order, the entries appended before the ones still accumulated (so none  *)
(* is sent by two of them); and a commit() with nothing accumulated, on a  *)
(* Batch that has flushed before, dispatches a request with an empty       *)
(* entries array.                                                          *)
C4_CommitClearsAndReuses ==
    /\ (IsCommit /\ last.outcome = "returned") => entries = << >>
    /\ Len(flushed) + Len(entries) = Len(appended)
    /\ \A i \in DOMAIN flushed : Carries(flushed[i], appended[i])
    /\ \A i \in DOMAIN entries : entries[i] = appended[Len(flushed) + i]
    /\ (IsCommit /\ DispatchedOne)
       => Len(LastRequest.data.entries) = Len(last.pre)
    /\ (IsCommit /\ last.pre = << >> /\ Len(flushed) > 0)
       => (DispatchedOne /\ LastRequest.data.entries = << >>)

C4_Witness ==
    /\ IsCommit
    /\ last.outcome = "returned"
    /\ last.pre # << >>
    /\ Len(flushed) > Len(last.pre)
    /\ Len(requests) = 2
    /\ entries = << >>

(* C5: commit() on a Batch created by Logger.batch() does not fail reading *)
(* the Logger's addressing key: unless rendering an entry fails, it        *)
(* dispatches a body whose logName is the Logger's full name               *)
(* projects/p/logs/n and whose resource is {type: global}.                 *)
C5_CommitAddressesFullName ==
    (IsCommit /\ batchLogger = "Logger" /\ AllRenderable(last.pre))
    => /\ last.outcome # "AttributeError"
       /\ DispatchedOne
       /\ LastRequest.data.logName = "projects/p/logs/" \o loggerName
       /\ LastRequest.data.resource = Global

(* C6: every wire entry, of a Logger write or of a Batch commit, carries   *)
(* exactly one payload key, textPayload for text, structuredPayload for    *)
(* struct, protoPayload for proto.                                         *)
C6_OnePayloadKeyPerKind ==
    /\ (IsLoggerWrite /\ DispatchedOne)
       => PayloadKeysOf(LastRequest.data.entries[1]) = {ClaimedKey(last.kind)}
    /\ (IsCommit /\ DispatchedOne)
       => \A i \in DOMAIN last.pre :
             PayloadKeysOf(LastRequest.data.entries[i]) = {ClaimedKey(last.pre[i][1])}

(* The request a Logger write dispatches: one POST /entries:write through  *)
(* the effective client with exactly one entry, addressed by the Logger's  *)
(* full name, resource {type: global}; a collaborator failure is the       *)
(* call's outcome and no second request follows.                           *)
OneWriteRequest ==
    /\ DispatchedOne
    /\ LastRequest.method = "POST"
    /\ LastRequest.path = "/entries:write"
    /\ LastRequest.client = Effective(last.client, BoundClient)
    /\ Len(LastRequest.data.entries) = 1
    /\ LastRequest.data.entries[1].logName = "projects/p/logs/" \o loggerName
    /\ LastRequest.data.entries[1].resource = Global
    /\ last.outcome \in {"returned", "TransportError"}

(* C7 as stated: each call of Logger.log_text, log_struct or log_proto     *)
(* dispatches exactly one such request.                                    *)
C7_EveryWriteDispatchesOne == IsLoggerWrite => OneWriteRequest

(* C7 amended: each call of Logger.log_text, log_struct or log_proto whose *)
(* payload is built dispatches exactly one such request; a log_proto whose *)
(* message cannot be rendered dispatches no request and the encoding       *)
(* error is the call's outcome.                                            *)
C7_BuiltWriteDispatchesOne ==
    IsLoggerWrite
    => IF last.kind = "proto" /\ ~CanRender(last.value)
       THEN Len(requests) = last.before /\ last.outcome = "EncodingError"
       ELSE OneWriteRequest

C7_Witness ==
    /\ last.op = "Logger.log_proto"
    /\ last.value = UserMsg
    /\ last.client = Some(OtherClient)
    /\ last.outcome = "TransportError"
    /\ last.before = 1
    /\ Len(requests) = 2
    /\ LastRequest.client = OtherClient

(* C8: the entry a Logger write dispatches has labels equal to the         *)
(* entry-level labels when given (an empty mapping included), else to the  *)
(* Logger's default labels when it has them, else no labels field; the     *)
(* Logger's default labels are unchanged by the call.                      *)
C8_LabelsResolution ==
    IsLoggerWrite
    => /\ loggerLabels = last.defaults
       /\ DispatchedOne
          => LET e == LastRequest.data.entries[1]
             IN  IF last.labels # None
                 THEN "labels" \in DOMAIN e /\ e.labels = last.labels[1]
                 ELSE IF last.defaults # None
                 THEN "labels" \in DOMAIN e /\ e.labels = last.defaults[1]
                 ELSE "labels" \notin DOMAIN e

C8_Witness ==
    /\ IsLoggerWrite
    /\ DispatchedOne
    /\ last.labels = Some({})
    /\ last.defaults = Some({<<"a", "1">>})
    /\ LastRequest.data.entries[1].labels = {}

(* C9: Logger.list_entries makes exactly one call of the client's          *)
(* list_entries, with filter logName:n when the caller gives none and      *)
(* <callerFilter> AND logName:n otherwise, forwards projects, order_by,    *)
(* page_size and page_token unchanged and returns the collaborator's       *)
(* (entries, nextPageToken) unchanged.                                     *)
C9_ListEntriesFilter ==
    last.op = "Logger.list_entries"
    => /\ Len(listCalls) = last.before + 1
       /\ LastListCall.client = BoundClient
       /\ LastListCall.filter_ =
             (IF last.filter_ = None THEN "logName:" \o loggerName
              ELSE last.filter_[1] \o " AND logName:" \o loggerName)
       /\ (last.filter_ = Some("severity>=ERROR") /\ loggerName = "app")
          => LastListCall.filter_ = "severity>=ERROR AND logName:app"
       /\ LastListCall.projects = last.args.projects
       /\ LastListCall.order_by = last.args.order_by
       /\ LastListCall.page_size = last.args.page_size
       /\ LastListCall.page_token = last.args.page_token
       /\ last.result = last.collaborator

C9_Witness ==
    /\ last.op = "Logger.list_entries"
    /\ loggerName = "app"
    /\ last.filter_ = Some("severity>=ERROR")
    /\ LastListCall.filter_ = "severity>=ERROR AND logName:app"
    /\ LastListCall.page_token = Some("tok1")
    /\ last.result = Some(<< <<"e1", "e2">>, Some("tok2") >>)

(* C10: every accumulated entry has kind text, struct or proto and no call *)
(* ends in the invalid-entry-kind error; an accumulation call dispatches   *)
(* nothing and appends exactly its entry at the end; every other Batch     *)
(* call leaves the sequence as it was or, a commit that returned, empties  *)
(* it.                                                                     *)
C10_AccumulationInvariant ==
    /\ \A i \in DOMAIN entries : entries[i][1] \in {"text", "struct", "proto"}
    /\ last.op # "init" => last.outcome # "ValueError"
    /\ IsAccumulation
       => /\ Len(requests) = last.before
          /\ entries = last.pre \o << <<last.kind, last.value>> >>
    /\ (IsBatchCall /\ ~IsAccumulation)
       => \/ entries = last.pre
          \/ (entries = << >> /\ IsCommit /\ last.outcome = "returned")

C10_Witness ==
    /\ last.op = "Batch.log_struct"
    /\ scope = "in"
    /\ Len(entries) = 2
    /\ entries[1][1] = "text"
    /\ entries[2] = <<"struct", [b |-> 1]>>

====
